---- MODULE Spec2Model ----
(***************************************************************************)
(* State-machine model of the passenger bot (src/passenger_bot.py): the    *)
(* ordering dialogue of one requester (a python-telegram-bot               *)
(* ConversationHandler), the driver registry with its JSON store, the      *)
(* operator commands, and confirm_order's fan-out to the drivers.          *)
(*                                                                         *)
(* Texts are sequences of one-character strings, so that string            *)
(* operations (replace, concatenation, emptiness) are computed and not     *)
(* assumed.  "" is <<>>.  Characters outside ASCII are written as their    *)
(* code point ("U+1F696").                                                 *)
(*                                                                         *)
(* Application.builder() (line 509) is built without concurrent_updates    *)
(* and every handler is blocking, so the Application processes one update  *)
(* at a time: a handler runs to its end before the next update is looked   *)
(* at.  pc = "idle" is the guard of every handler's first step.            *)
(*                                                                         *)
(* The sends confirm_order makes (to each driver, to the admin chat, and   *)
(* the two to the requester) each succeed or raise, and outbox records     *)
(* them.  The prompts the dialogue handlers reply with, the replies of the *)
(* operator commands and query.answer() are handed to the transport and    *)
(* taken to be delivered.  A handler that raises leaves the conversation   *)
(* state as it was: ConversationHandler stores a new state only when the   *)
(* handler returns.                                                        *)
(*                                                                         *)
(* drivers.json is a text: json.dump formats it and json.load parses it.    *)
(* Spec runs on a store every write to which succeeds (HealthyOutcomes);   *)
(* SpecStore is the registry with writes that can fail and with restarts   *)
(* of the process; SpecLoad applies load_driver_ids and save_driver_ids to *)
(* files of any content.                                                   *)
(***************************************************************************)
EXTENDS Integers, Sequences, FiniteSets, TLC

VARIABLES
    stage,            \* the ConversationHandler state of the requester's conversation
    user_data,        \* context.user_data of the requester (a dict: key -> value)
    driver_chat_ids,  \* the module-level list of driver chat ids
    store,            \* the content of drivers.json
    admin_chat_id,    \* context.bot_data.get("admin_chat_id"), NoChat when absent
    pc,               \* where the running handler is; "idle" between updates
    frame,            \* the running handler's local variables
    outbox            \* the sends the running handler has made so far, in order

vars == <<stage, user_data, driver_chat_ids, store, admin_chat_id, pc, frame, outbox>>

-----------------------------------------------------------------------------
(* Bounds of the model *)

\* driver chat ids are 1..MaxDrivers
MaxDrivers == 2

DriverIds == 1..MaxDrivers

-----------------------------------------------------------------------------
(* Chat endpoints *)

\* bot_data has no "admin_chat_id" key
NoChat == 0

\* update.effective_chat.id of the requester
RequesterChat == 100

\* update.effective_chat.id of the operator issuing /add_driver
AdminChat == 200

-----------------------------------------------------------------------------
(* Texts *)

EmptyText == <<>>

\* the language buttons
LANG_UK == <<"U+1F1FA", "U+1F1E6", " ", "U+0423", "U+043A", "U+0440", "U+0430",
             "U+0457", "U+043D", "U+0441", "U+044C", "U+043A", "U+0430">>

LANG_EN == <<"U+1F1EC", "U+1F1E7", " ", "E", "n", "g", "l", "i", "s", "h">>

\* TRANSLATIONS[lang]["order_button"], the texts the order-button regexes match
ORDER_BUTTON_EN == <<"U+1F696", " ", "O", "r", "d", "e", "r", " ", "T", "a", "x", "i">>

ORDER_BUTTON_UK == <<"U+1F696", " ", "U+0417", "U+0430", "U+043C", "U+043E", "U+0432",
                     "U+0438", "U+0442", "U+0438", " ", "U+0442", "U+0430", "U+043A",
                     "U+0441", "U+0456">>

Alex == <<"A", "l", "e", "x">>

Phone555 == <<"5", "5", "5">>

MainSt == <<"M", "a", "i", "n", " ", "S", "t">>

SecondAve == <<"2", "n", "d", " ", "A", "v", "e">>

NoSmoking == <<"n", "o", " ", "s", "m", "o", "k", "i", "n", "g">>

\* The text messages a requester sends in each state of a dialogue.  All are
\* non-empty: filters.TEXT lets through only a message that has a text.  Every
\* state's handler is behind the same filter, TEXT & ~COMMAND, which does not look
\* at the content: the label of the order button is a text like any other.
NameTexts == {Alex, ORDER_BUTTON_EN}

PhoneTexts == {Phone555}

PickupTexts == {MainSt}

DropoffTexts == {SecondAve}

CommentTexts == {NoSmoking}

\* text messages a requester sends while no dialogue is running
EntryTexts == {LANG_UK, LANG_EN, ORDER_BUTTON_EN, ORDER_BUTTON_UK, MainSt}

\* update.message.contact.phone_number
Contacts == {<<"+", "1", "5", "5", "5">>}

\* update.message.location as (latitude, longitude), each in its decimal form
Locations == {<< <<"1", "2", ".", "3", "4">>, <<"5", "6", ".", "7", "8">> >>}

\* update.effective_user.username of the requester; <<>> when the user has none
NoUsername == <<>>

Usernames == {NoUsername, <<"a", "l", "e", "x">>}

-----------------------------------------------------------------------------
(* Python dict and str helpers *)

\* d.get(k, default)
Get(d, k, default) == IF k \in DOMAIN d THEN d[k] ELSE default

\* d[k] = v
Put(d, k, v) == [x \in (DOMAIN d) \cup {k} |-> IF x = k THEN v ELSE d[x]]

\* lang = user_data.get("lang", "en"); user_data.clear(); user_data["lang"] = lang
ClearKeepLang(d) == [x \in {"lang"} |-> Get(d, "lang", "en")]

RECURSIVE Replace(_, _, _)
\* s.replace(old, new) for a one-character old
Replace(s, old, new) ==
    IF s = <<>> THEN <<>>
    ELSE (IF Head(s) = old THEN new ELSE <<Head(s)>>) \o Replace(Tail(s), old, new)

\* x in list
InList(x, list) == \E i \in 1..Len(list) : list[i] = x

RECURSIVE Remove(_, _)
\* list.remove(x): drops the first occurrence
Remove(list, x) ==
    IF list = <<>> THEN <<>>
    ELSE IF Head(list) = x THEN Tail(list)
    ELSE <<Head(list)>> \o Remove(Tail(list), x)

-----------------------------------------------------------------------------
(* Conversation states *)

\* NAME, PHONE, PICKUP, DROPOFF, CONFIRM = range(5); ConversationHandler.END
\* (no conversation running) is the entry state, written LANG_SELECT
Stages == <<"LANG_SELECT", "NAME", "PHONE", "PICKUP", "DROPOFF", "CONFIRM">>

StageIndex(s) == CHOOSE i \in 1..Len(Stages) : Stages[i] = s

-----------------------------------------------------------------------------
(* Decimal numerals *)

DigitStr == <<"0", "1", "2", "3", "4", "5", "6", "7", "8", "9">>

DigitChars == {DigitStr[i] : i \in 1..10}

DigitValue(c) == CHOOSE n \in 0..9 : DigitStr[n + 1] = c

\* s is one or more decimal digits
AllDigits(s) == s # <<>> /\ \A i \in 1..Len(s) : s[i] \in DigitChars

RECURSIVE DecimalValue(_)
\* the number a string of decimal digits denotes
DecimalValue(s) ==
    IF s = <<>> THEN 0
    ELSE DecimalValue(SubSeq(s, 1, Len(s) - 1)) * 10 + DigitValue(s[Len(s)])

RECURSIVE DecimalDigits(_)
\* the decimal digits of n >= 0
DecimalDigits(n) ==
    IF n < 10 THEN <<DigitStr[n + 1]>>
    ELSE DecimalDigits(n \div 10) \o <<DigitStr[(n % 10) + 1]>>

\* an int written without its sign
FormatInt_drops_sign(n) == DecimalDigits(IF n < 0 THEN -n ELSE n)

\* how json.dump writes an int
FormatInt(n) == IF n < 0 THEN <<"-">> \o DecimalDigits(-n) ELSE DecimalDigits(n)

-----------------------------------------------------------------------------
(* JSON texts.  The parser covers the fragment of JSON the files of the model *)
(* are written in: a scalar, {} or a flat array of scalars, where a string    *)
(* holds no comma, quote or backslash and a number has no exponent.           *)

Whitespace == {" ", "\n"}

RECURSIVE LStrip(_)
LStrip(s) == IF s # <<>> /\ Head(s) \in Whitespace THEN LStrip(Tail(s)) ELSE s

RECURSIVE RStrip(_)
RStrip(s) ==
    IF s # <<>> /\ s[Len(s)] \in Whitespace THEN RStrip(SubSeq(s, 1, Len(s) - 1)) ELSE s

\* s.strip()
Strip(s) == RStrip(LStrip(s))

RECURSIVE Split(_, _)
\* s.split(sep) for a one-character sep
Split(s, sep) ==
    IF ~InList(sep, s) THEN <<s>>
    ELSE LET i == CHOOSE k \in 1..Len(s) : s[k] = sep /\ \A j \in 1..(k - 1) : s[j] # sep
         IN  <<SubSeq(s, 1, i - 1)>> \o Split(SubSeq(s, i + 1, Len(s)), sep)

RECURSIVE Join(_, _)
\* sep.join(parts)
Join(parts, sep) ==
    IF parts = <<>> THEN <<>>
    ELSE IF Len(parts) = 1 THEN parts[1]
    ELSE parts[1] \o sep \o Join(Tail(parts), sep)

\* a parsed JSON value: t is its type, v the value of an int or a bool (True is
\* 1), s the literal of a float or the content of a string, items the elements
\* of an array
JsonValue(t, v, s, items) == [t |-> t, v |-> v, s |-> s, items |-> items]

\* what the parser returns: a value, or ok = FALSE for json.JSONDecodeError
Parsed(value) == [ok |-> TRUE, value |-> value]

DecodeError == [ok |-> FALSE, value |-> JsonValue("null", 0, <<>>, <<>>)]

IsIntLiteral(s) ==
    LET d == IF s # <<>> /\ Head(s) = "-" THEN Tail(s) ELSE s
    IN  AllDigits(d) /\ (Len(d) > 1 => d[1] # "0")

IntLiteralValue(s) == IF Head(s) = "-" THEN -DecimalValue(Tail(s)) ELSE DecimalValue(s)

IsFloatLiteral(s) ==
    LET p == Split(s, ".")
    IN  Len(p) = 2 /\ IsIntLiteral(p[1]) /\ AllDigits(p[2])

IsStringLiteral(s) ==
    /\ Len(s) >= 2
    /\ s[1] = "\""
    /\ s[Len(s)] = "\""
    /\ \A i \in 2..(Len(s) - 1) : s[i] \notin {"\"", "\\"}

ParseScalar(s) ==
    IF IsIntLiteral(s) THEN Parsed(JsonValue("int", IntLiteralValue(s), <<>>, <<>>))
    ELSE IF IsFloatLiteral(s) THEN Parsed(JsonValue("float", 0, s, <<>>))
    ELSE IF IsStringLiteral(s)
    THEN Parsed(JsonValue("str", 0, SubSeq(s, 2, Len(s) - 1), <<>>))
    ELSE IF s = <<"t", "r", "u", "e">> THEN Parsed(JsonValue("bool", 1, <<>>, <<>>))
    ELSE IF s = <<"f", "a", "l", "s", "e">> THEN Parsed(JsonValue("bool", 0, <<>>, <<>>))
    ELSE IF s = <<"n", "u", "l", "l">> THEN Parsed(JsonValue("null", 0, <<>>, <<>>))
    ELSE DecodeError

\* json.load(f) of a file with this text
json_load(text) ==
    LET s == Strip(text)
    IN  IF s = <<>> THEN DecodeError
        ELSE IF Head(s) = "["
        THEN IF s[Len(s)] # "]" THEN DecodeError
             ELSE LET inner == Strip(SubSeq(s, 2, Len(s) - 1))
                      pieces == Split(inner, ",")
                      parsed == [i \in 1..Len(pieces) |-> ParseScalar(Strip(pieces[i]))]
                  IN  IF inner = <<>> THEN Parsed(JsonValue("list", 0, <<>>, <<>>))
                      ELSE IF \E i \in 1..Len(parsed) : ~parsed[i].ok THEN DecodeError
                      ELSE Parsed(JsonValue("list", 0, <<>>,
                                            [i \in 1..Len(parsed) |-> parsed[i].value]))
        ELSE IF s = <<"{", "}">> THEN Parsed(JsonValue("object", 0, <<>>, <<>>))
        ELSE ParseScalar(s)

\* json.dump(ids, f) of a list of ints: "[1, 2]"
json_dump(ids) ==
    <<"[">> \o Join([i \in 1..Len(ids) |-> FormatInt(ids[i])], <<",", " ">>) \o <<"]">>

\* the digits of a str that int() takes: stripped, with an optional sign
IntStrDigits(s) ==
    LET u == Strip(s)
    IN  IF u # <<>> /\ Head(u) \in {"+", "-"} THEN Tail(u) ELSE u

\* whether int(x) returns for a parsed JSON value (False: TypeError for None, a
\* list or a dict, ValueError for a str that is no numeral)
IntReturns(x) ==
    CASE x.t \in {"int", "float", "bool"} -> TRUE
      [] x.t = "str" -> AllDigits(IntStrDigits(x.s))
      [] OTHER -> FALSE

\* int(x): a float is truncated towards zero, a bool is 0 or 1, a str is read as
\* a decimal numeral
int(x) ==
    CASE x.t \in {"int", "bool"} -> x.v
      [] x.t = "float" -> IntLiteralValue(Split(x.s, ".")[1])
      [] x.t = "str" -> IF Head(Strip(x.s)) = "-" THEN -DecimalValue(IntStrDigits(x.s))
                        ELSE DecimalValue(IntStrDigits(x.s))

-----------------------------------------------------------------------------
(* The registry store, drivers.json *)

RECURSIVE SeqsOver(_, _)
\* the sequences without repetition of at most n elements of S
SeqsOver(S, n) ==
    IF n = 0 THEN {<<>>}
    ELSE LET shorter == SeqsOver(S, n - 1)
         IN  shorter \cup UNION {{Append(q, x) : x \in {y \in S : ~InList(y, q)}} : q \in shorter}

\* a file: whether os.path.exists(DRIVER_STORE_FILE), and its text
File(text) == [exists |-> TRUE, text |-> text]

MissingStore == [exists |-> FALSE, text |-> <<>>]

\* a file json.load cannot parse (also what a write that failed half-way leaves)
GarbageStore == File(<<"[">>)

\* what json.dump(ids, f) writes
ListStore(ids) == File(json_dump(ids))

\* the files the process can find at start: none, an unparsable one, or one an
\* earlier run of save_driver_ids wrote
InitialStores == {MissingStore, GarbageStore} \cup {ListStore(q) : q \in SeqsOver(DriverIds, MaxDrivers)}

\* lines 47-56: [] for a missing file, for any exception (json.load or int()
\* raising) and for a value that is no list; [int(x) for x in data] otherwise
load_driver_ids(st) ==
    IF ~st.exists THEN <<>>
    ELSE LET data == json_load(st.text)
         IN  IF ~data.ok THEN <<>>
             ELSE IF data.value.t # "list" THEN <<>>
             ELSE IF \E i \in 1..Len(data.value.items) : ~IntReturns(data.value.items[i])
             THEN <<>>
             ELSE [i \in 1..Len(data.value.items) |-> int(data.value.items[i])]

\* the outcomes of save_driver_ids: the write succeeds, open() raises (the file
\* is left as it was), or the write raises after open() truncated the file
SaveOutcomes == {"ok", "open_fails", "write_fails"}

\* the outcomes on a store every write to which succeeds
HealthyOutcomes == {"ok"}

save_driver_ids(ids, outcome) ==
    CASE outcome = "ok" -> ListStore(ids)
      [] outcome = "open_fails" -> store
      [] outcome = "write_fails" -> GarbageStore

-----------------------------------------------------------------------------
(* Handler bookkeeping *)

\* context.user_data of a user the bot has not seen: an empty dict
EmptyDict == [x \in {} |-> x]

\* chat_id is the local of add_driver and remove_driver, 0 while it is not bound
NoFrame == [handler |-> "none", customer_username |-> NoUsername, customer_name |-> <<>>,
            order_message |-> EmptyDict, idx |-> 0, failed_deliveries |-> <<>>,
            chat_id |-> 0]

Idle == pc = "idle"

\* one send: to a chat, of a message kind, delivered or raising
Send(to, kind, ok) == [to |-> to, kind |-> kind, ok |-> ok]

Init ==
    /\ stage = "LANG_SELECT"
    /\ user_data = EmptyDict
    /\ store \in InitialStores
    /\ driver_chat_ids = load_driver_ids(store)
    /\ admin_chat_id = NoChat
    /\ pc = "idle"
    /\ frame = NoFrame
    /\ outbox = <<>>

-----------------------------------------------------------------------------
(* The ordering dialogue *)

Registry == <<driver_chat_ids, store, admin_chat_id>>

Handler == <<pc, frame, outbox>>

\* /start with no conversation running: shows the language buttons, returns END
start ==
    /\ Idle
    /\ stage = "LANG_SELECT"
    /\ UNCHANGED vars

\* the body of order_taxi
order_taxi_body(d) ==
    IF "lang" \notin DOMAIN d THEN Put(d, "lang", "en") ELSE d

\* language_select returning END for the Ukrainian button too
language_select_uk_stays(text) ==
    /\ Idle
    /\ stage = "LANG_SELECT"
    /\ text \in {LANG_UK, LANG_EN}
    /\ user_data' = Put(user_data, "lang", IF text = LANG_UK THEN "uk" ELSE "en")
    /\ stage' = "LANG_SELECT"
    /\ UNCHANGED <<Registry, Handler>>

\* a language button with no conversation running
language_select(text) ==
    /\ Idle
    /\ stage = "LANG_SELECT"
    /\ text \in {LANG_UK, LANG_EN}
    /\ IF text = LANG_UK
       THEN /\ user_data' = order_taxi_body(Put(user_data, "lang", "uk"))
            /\ stage' = "NAME"
       ELSE /\ user_data' = Put(user_data, "lang", "en")
            /\ stage' = "LANG_SELECT"
    /\ UNCHANGED <<Registry, Handler>>

\* an order button with no conversation running
order_taxi(text) ==
    /\ Idle
    /\ stage = "LANG_SELECT"
    /\ text \in {ORDER_BUTTON_EN, ORDER_BUTTON_UK}
    /\ user_data' = order_taxi_body(user_data)
    /\ stage' = "NAME"
    /\ UNCHANGED <<Registry, Handler>>

\* get_name returning PICKUP: the phone step is skipped
get_name_skips_phone(text) ==
    /\ Idle
    /\ stage = "NAME"
    /\ user_data' = Put(user_data, "name", text)
    /\ stage' = "PICKUP"
    /\ UNCHANGED <<Registry, Handler>>

get_name(text) ==
    /\ Idle
    /\ stage = "NAME"
    /\ user_data' = Put(user_data, "name", text)
    /\ stage' = "PHONE"
    /\ UNCHANGED <<Registry, Handler>>

\* contact is <<>> for a message without a contact, text <<>> for one without text
get_phone(contact, text) ==
    /\ Idle
    /\ stage = "PHONE"
    /\ user_data' = Put(user_data, "phone", IF contact # <<>> THEN contact ELSE text)
    /\ stage' = "PICKUP"
    /\ UNCHANGED <<Registry, Handler>>

LocationPrefix == <<"U+1F4CD", " ", "L", "o", "c", "a", "t", "i", "o", "n", ":", " ">>

WazePrefixLl == <<"h", "t", "t", "p", "s", ":", "/", "/", "w", "a", "z", "e", ".", "c", "o", "m",
                  "/", "u", "l", "?", "l", "l", "=">>

WazePrefixQ == <<"h", "t", "t", "p", "s", ":", "/", "/", "w", "a", "z", "e", ".", "c", "o", "m",
                 "/", "u", "l", "?", "q", "=">>

WazeSuffix == <<"&", "n", "a", "v", "i", "g", "a", "t", "e", "=", "y", "e", "s">>

\* the three keys get_pickup writes; location is <<>> for a message without one
pickup_fields(location, text) ==
    IF location # <<>>
    THEN [pickup |-> LocationPrefix \o location[1] \o <<",", " ">> \o location[2],
          pickup_coords |-> location,
          waze_link |-> WazePrefixLl \o location[1] \o <<",">> \o location[2] \o WazeSuffix]
    ELSE [pickup |-> text,
          pickup_coords |-> <<>>,
          waze_link |-> WazePrefixQ \o Replace(text, " ", <<"%", "2", "0">>) \o WazeSuffix]

get_pickup(location, text) ==
    /\ Idle
    /\ stage = "PICKUP"
    /\ LET f == pickup_fields(location, text)
       IN  user_data' = Put(Put(Put(user_data, "pickup", f.pickup),
                                "pickup_coords", f.pickup_coords),
                            "waze_link", f.waze_link)
    /\ stage' = "DROPOFF"
    /\ UNCHANGED <<Registry, Handler>>

get_dropoff(text) ==
    /\ Idle
    /\ stage = "DROPOFF"
    /\ user_data' = Put(Put(user_data, "dropoff", text), "comment", EmptyText)
    /\ stage' = "CONFIRM"
    /\ UNCHANGED <<Registry, Handler>>

\* the "add_comment" inline button
add_comment ==
    /\ Idle
    /\ stage = "CONFIRM"
    /\ user_data' = Put(user_data, "waiting_for_comment", TRUE)
    /\ stage' = "CONFIRM"
    /\ UNCHANGED <<Registry, Handler>>

\* receive_comment storing the text without looking at waiting_for_comment
receive_comment_always(text) ==
    /\ Idle
    /\ stage = "CONFIRM"
    /\ user_data' = Put(Put(user_data, "comment", text), "waiting_for_comment", FALSE)
    /\ stage' = "CONFIRM"
    /\ UNCHANGED <<Registry, Handler>>

\* a text message in CONFIRM
receive_comment(text) ==
    /\ Idle
    /\ stage = "CONFIRM"
    /\ IF Get(user_data, "waiting_for_comment", FALSE)
       THEN user_data' = Put(Put(user_data, "comment", text), "waiting_for_comment", FALSE)
       ELSE user_data' = user_data
    /\ stage' = "CONFIRM"
    /\ UNCHANGED <<Registry, Handler>>

\* cancel leaving the draft in user_data
cancel_keeps_draft ==
    /\ Idle
    /\ stage # "LANG_SELECT"
    /\ user_data' = user_data
    /\ stage' = "LANG_SELECT"
    /\ pc' = "returned"
    /\ frame' = [NoFrame EXCEPT !.handler = "cancel"]
    /\ outbox' = <<Send(RequesterChat, "cancelled", TRUE)>>
    /\ UNCHANGED Registry

\* /cancel while a conversation is running (a fallback: not looked at otherwise).
\* The handler only returns END, which is written here with its body: no other
\* update is looked at before handler_exit.
cancel ==
    /\ Idle
    /\ stage # "LANG_SELECT"
    /\ user_data' = ClearKeepLang(user_data)
    /\ stage' = "LANG_SELECT"
    /\ pc' = "returned"
    /\ frame' = [NoFrame EXCEPT !.handler = "cancel"]
    /\ outbox' = <<Send(RequesterChat, "cancelled", TRUE)>>
    /\ UNCHANGED Registry

\* the kinds of update other than a text message
UpdateKinds == {"contact", "location", "confirm", "add_comment", "/start", "/cancel"}

\* conv_handler: whether some handler takes an update of this kind in this state
Matched(st, kind) ==
    CASE st = "LANG_SELECT" -> kind = "/start"
      [] st = "NAME" -> kind = "/cancel"
      [] st = "PHONE" -> kind \in {"contact", "/cancel"}
      [] st = "PICKUP" -> kind \in {"location", "/cancel"}
      [] st = "DROPOFF" -> kind = "/cancel"
      [] st = "CONFIRM" -> kind \in {"confirm", "add_comment", "/cancel"}

\* an update no handler of the current state takes: nothing runs
unmatched(kind) ==
    /\ Idle
    /\ ~Matched(stage, kind)
    /\ UNCHANGED vars

\* a text with no conversation running that matches no entry point
unmatched_text(text) ==
    /\ Idle
    /\ stage = "LANG_SELECT"
    /\ text \notin {LANG_UK, LANG_EN, ORDER_BUTTON_EN, ORDER_BUTTON_UK}
    /\ UNCHANGED vars

-----------------------------------------------------------------------------
(* confirm_order: the "confirm" inline button in CONFIRM *)

Unknown == <<"U", "n", "k", "n", "o", "w", "n">>

NoPhone == <<"(", "n", "o", " ", "p", "h", "o", "n", "e", ")">>

\* the content of order_message: the draft read with .get(key, ''), the comment
\* line only for a non-empty comment, and the contact line
order_message(d, username) ==
    [name |-> Get(d, "name", EmptyText),
     phone |-> Get(d, "phone", EmptyText),
     pickup |-> Get(d, "pickup", EmptyText),
     dropoff |-> Get(d, "dropoff", EmptyText),
     has_comment_line |-> Get(d, "comment", EmptyText) # EmptyText,
     comment |-> Get(d, "comment", EmptyText),
     waze_link |-> Get(d, "waze_link", EmptyText),
     contact |-> IF username # NoUsername THEN username ELSE Get(d, "phone", NoPhone)]

\* confirm_order taking the no-drivers branch for a list of one driver too
confirm_order_off_by_one(username) ==
    /\ Idle
    /\ stage = "CONFIRM"
    /\ frame' = [handler |-> "confirm_order",
                 customer_username |-> username,
                 customer_name |-> Get(user_data, "name", Unknown),
                 order_message |-> order_message(user_data, username),
                 idx |-> 1,
                 failed_deliveries |-> <<>>,
                 chat_id |-> 0]
    /\ pc' = IF Len(driver_chat_ids) <= 1 THEN "no_drivers_admin" ELSE "fanout"
    /\ outbox' = <<>>
    /\ UNCHANGED <<stage, user_data, Registry>>

\* lines 321-354 and 379-385: the handler starts, builds the message and takes
\* the no-drivers branch or enters the loop over driver_chat_ids
confirm_order(username) ==
    /\ Idle
    /\ stage = "CONFIRM"
    /\ frame' = [handler |-> "confirm_order",
                 customer_username |-> username,
                 customer_name |-> Get(user_data, "name", Unknown),
                 order_message |-> order_message(user_data, username),
                 idx |-> 1,
                 failed_deliveries |-> <<>>,
                 chat_id |-> 0]
    /\ pc' = IF driver_chat_ids = <<>> THEN "no_drivers_admin" ELSE "fanout"
    /\ outbox' = <<>>
    /\ UNCHANGED <<stage, user_data, Registry>>

\* lines 355-367: the notification to the admin chat when one is known (a failure
\* is caught and logged), then user_data is cleared but for the language
no_drivers_notify_admin(ok) ==
    /\ pc = "no_drivers_admin"
    /\ outbox' = IF admin_chat_id # NoChat
                 THEN Append(outbox, Send(admin_chat_id, "no_drivers_admin", ok))
                 ELSE outbox
    /\ user_data' = ClearKeepLang(user_data)
    /\ pc' = "no_drivers_ack"
    /\ UNCHANGED <<stage, Registry, frame>>

\* line 373: query.edit_message_text(no_drivers_passenger), outside any try
no_drivers_ack(ok) ==
    /\ pc = "no_drivers_ack"
    /\ outbox' = Append(outbox, Send(RequesterChat, "no_drivers_passenger", ok))
    /\ pc' = IF ok THEN "no_drivers_prompt" ELSE "raised"
    /\ UNCHANGED <<stage, user_data, Registry, frame>>

\* lines 374-377: send_message(start_again), outside any try; return END
no_drivers_prompt(ok) ==
    /\ pc = "no_drivers_prompt"
    /\ outbox' = Append(outbox, Send(RequesterChat, "start_again", ok))
    /\ pc' = IF ok THEN "returned" ELSE "raised"
    /\ UNCHANGED <<stage, user_data, Registry, frame>>

\* the loop left at the first failed send (the except clause outside the loop)
deliver_stops_on_failure(ok) ==
    /\ pc = "fanout"
    /\ LET driver_id == driver_chat_ids[frame.idx]
       IN  /\ outbox' = Append(outbox, Send(driver_id, "order", ok))
           /\ frame' = [frame EXCEPT
                          !.idx = @ + 1,
                          !.failed_deliveries = IF ok THEN @ ELSE Append(@, driver_id)]
    /\ pc' = IF ~ok \/ frame.idx + 1 > Len(driver_chat_ids) THEN "notify_admin" ELSE "fanout"
    /\ UNCHANGED <<stage, user_data, Registry>>

\* failed_deliveries.append(driver_id) in the try block instead of the except block
deliver_records_successes(ok) ==
    /\ pc = "fanout"
    /\ LET driver_id == driver_chat_ids[frame.idx]
       IN  /\ outbox' = Append(outbox, Send(driver_id, "order", ok))
           /\ frame' = [frame EXCEPT
                          !.idx = @ + 1,
                          !.failed_deliveries = IF ok THEN Append(@, driver_id) ELSE @]
    /\ pc' = IF frame.idx + 1 > Len(driver_chat_ids) THEN "notify_admin" ELSE "fanout"
    /\ UNCHANGED <<stage, user_data, Registry>>

\* lines 386-392: one turn of the loop over driver_chat_ids
deliver(ok) ==
    /\ pc = "fanout"
    /\ LET driver_id == driver_chat_ids[frame.idx]
       IN  /\ outbox' = Append(outbox, Send(driver_id, "order", ok))
           /\ frame' = [frame EXCEPT
                          !.idx = @ + 1,
                          !.failed_deliveries = IF ok THEN @ ELSE Append(@, driver_id)]
    /\ pc' = IF frame.idx + 1 > Len(driver_chat_ids) THEN "notify_admin" ELSE "fanout"
    /\ UNCHANGED <<stage, user_data, Registry>>

\* lines 394-403: the notification to the admin chat when a delivery failed and
\* bot_data has an admin_chat_id (a failure is caught and logged)
notify_admin(ok) ==
    /\ pc = "notify_admin"
    /\ outbox' = IF frame.failed_deliveries # <<>> /\ admin_chat_id # NoChat
                 THEN Append(outbox, Send(admin_chat_id, "order_delivery_failed", ok))
                 ELSE outbox
    /\ pc' = "ack"
    /\ UNCHANGED <<stage, user_data, Registry, frame>>

\* the requester told of the failed deliveries instead of order_accepted
ack_reports_failures(ok) ==
    /\ pc = "ack"
    /\ outbox' = Append(outbox, Send(RequesterChat,
                                     IF frame.failed_deliveries # <<>>
                                     THEN "order_delivery_failed" ELSE "order_accepted", ok))
    /\ IF ok
       THEN /\ user_data' = ClearKeepLang(user_data)
            /\ pc' = "prompt"
       ELSE /\ user_data' = user_data
            /\ pc' = "raised"
    /\ UNCHANGED <<stage, Registry, frame>>

\* the confirmation sent twice (edited into the inline message and sent again)
ack_twice(ok) ==
    /\ pc = "ack"
    /\ outbox' = Append(Append(outbox, Send(RequesterChat, "order_accepted", ok)),
                        Send(RequesterChat, "order_accepted", ok))
    /\ IF ok
       THEN /\ user_data' = ClearKeepLang(user_data)
            /\ pc' = "prompt"
       ELSE /\ user_data' = user_data
            /\ pc' = "raised"
    /\ UNCHANGED <<stage, Registry, frame>>

\* lines 405-412: query.edit_message_text(order_accepted), outside any try, then
\* user_data is cleared but for the language
ack(ok) ==
    /\ pc = "ack"
    /\ outbox' = Append(outbox, Send(RequesterChat, "order_accepted", ok))
    /\ IF ok
       THEN /\ user_data' = ClearKeepLang(user_data)
            /\ pc' = "prompt"
       ELSE /\ user_data' = user_data
            /\ pc' = "raised"
    /\ UNCHANGED <<stage, Registry, frame>>

\* lines 414-420: send_message(start_again), outside any try; return END
prompt(ok) ==
    /\ pc = "prompt"
    /\ outbox' = Append(outbox, Send(RequesterChat, "start_again", ok))
    /\ pc' = IF ok THEN "returned" ELSE "raised"
    /\ UNCHANGED <<stage, user_data, Registry, frame>>

\* the handler is left: ConversationHandler stores the state a handler returned
\* (END for confirm_order) and keeps the old one when the handler raised
handler_exit ==
    /\ pc \in {"returned", "raised"}
    /\ stage' = IF frame.handler = "confirm_order" /\ pc = "returned"
                THEN "LANG_SELECT" ELSE stage
    /\ pc' = "idle"
    /\ frame' = NoFrame
    /\ outbox' = <<>>
    /\ UNCHANGED <<user_data, Registry>>

-----------------------------------------------------------------------------
(* The operator commands *)

\* the chat of a caller who is not the operator
StrangerChat == 300

\* whether int(arg) returns (False: it raises ValueError)
IsInt(arg) == \E n \in 0..9 : DigitStr[n + 1] = arg

\* int(arg)
IntOf(arg) == CHOOSE n \in 0..9 : DigitStr[n + 1] = arg

\* context.args of the commands that are tried
ArgLists == {<<>>, <<"x">>, <<"1", "2">>} \cup {<<DigitStr[i + 1]>> : i \in DriverIds}

Reply(is_admin, kind) == <<Send(IF is_admin THEN AdminChat ELSE StrangerChat, kind, TRUE)>>

\* the value of the handler's local chat_id once int(context.args[0]) has
\* returned, 0 for a run that does not get there
BoundChatId(is_admin, args) ==
    IF is_admin /\ Len(args) = 1 /\ IsInt(args[1]) THEN IntOf(args[1]) ELSE 0

\* add_driver without the membership test of line 454
add_driver_appends_always(is_admin, args, outcome) ==
    /\ Idle
    /\ pc' = "returned"
    /\ frame' = [NoFrame EXCEPT !.handler = "add_driver", !.chat_id = BoundChatId(is_admin, args)]
    /\ IF ~is_admin
       THEN /\ outbox' = Reply(is_admin, "not_authorized")
            /\ UNCHANGED <<driver_chat_ids, store, admin_chat_id>>
       ELSE /\ admin_chat_id' = AdminChat
            /\ IF Len(args) # 1
               THEN /\ outbox' = Reply(is_admin, "add_driver_usage")
                    /\ UNCHANGED <<driver_chat_ids, store>>
               ELSE IF ~IsInt(args[1])
               THEN /\ outbox' = Reply(is_admin, "invalid_chat_id")
                    /\ UNCHANGED <<driver_chat_ids, store>>
               ELSE IF TRUE
               THEN /\ driver_chat_ids' = Append(driver_chat_ids, IntOf(args[1]))
                    /\ store' = save_driver_ids(driver_chat_ids', outcome)
                    /\ outbox' = Reply(is_admin, "driver_added")
               ELSE UNCHANGED <<driver_chat_ids, store, outbox>>
    /\ UNCHANGED <<stage, user_data>>

\* add_driver writing the store in the else branch too
add_driver_resaves(is_admin, args, outcome) ==
    /\ Idle
    /\ pc' = "returned"
    /\ frame' = [NoFrame EXCEPT !.handler = "add_driver", !.chat_id = BoundChatId(is_admin, args)]
    /\ IF ~is_admin
       THEN /\ outbox' = Reply(is_admin, "not_authorized")
            /\ UNCHANGED <<driver_chat_ids, store, admin_chat_id>>
       ELSE /\ admin_chat_id' = AdminChat
            /\ IF Len(args) # 1
               THEN /\ outbox' = Reply(is_admin, "add_driver_usage")
                    /\ UNCHANGED <<driver_chat_ids, store>>
               ELSE IF ~IsInt(args[1])
               THEN /\ outbox' = Reply(is_admin, "invalid_chat_id")
                    /\ UNCHANGED <<driver_chat_ids, store>>
               ELSE IF ~InList(IntOf(args[1]), driver_chat_ids)
               THEN /\ driver_chat_ids' = Append(driver_chat_ids, IntOf(args[1]))
                    /\ store' = save_driver_ids(driver_chat_ids', outcome)
                    /\ outbox' = Reply(is_admin, "driver_added")
               ELSE /\ outbox' = Reply(is_admin, "driver_exists")
                    /\ store' = save_driver_ids(driver_chat_ids, outcome)
                    /\ UNCHANGED driver_chat_ids
    /\ UNCHANGED <<stage, user_data>>

\* add_driver undoing the append when the write did not go through
add_driver_rolls_back(is_admin, args, outcome) ==
    /\ Idle
    /\ pc' = "returned"
    /\ frame' = [NoFrame EXCEPT !.handler = "add_driver", !.chat_id = BoundChatId(is_admin, args)]
    /\ IF ~is_admin
       THEN /\ outbox' = Reply(is_admin, "not_authorized")
            /\ UNCHANGED <<driver_chat_ids, store, admin_chat_id>>
       ELSE /\ admin_chat_id' = AdminChat
            /\ IF Len(args) # 1
               THEN /\ outbox' = Reply(is_admin, "add_driver_usage")
                    /\ UNCHANGED <<driver_chat_ids, store>>
               ELSE IF ~IsInt(args[1])
               THEN /\ outbox' = Reply(is_admin, "invalid_chat_id")
                    /\ UNCHANGED <<driver_chat_ids, store>>
               ELSE IF ~InList(IntOf(args[1]), driver_chat_ids)
               THEN /\ store' = save_driver_ids(Append(driver_chat_ids, IntOf(args[1])), outcome)
                    /\ driver_chat_ids' = IF outcome = "ok"
                                          THEN Append(driver_chat_ids, IntOf(args[1]))
                                          ELSE driver_chat_ids
                    /\ outbox' = Reply(is_admin, "driver_added")
               ELSE /\ outbox' = Reply(is_admin, "driver_exists")
                    /\ UNCHANGED <<driver_chat_ids, store>>
    /\ UNCHANGED <<stage, user_data>>

\* add_driver writing the new id alone to the file
add_driver_saves_own_id(is_admin, args, outcome) ==
    /\ Idle
    /\ pc' = "returned"
    /\ frame' = [NoFrame EXCEPT !.handler = "add_driver", !.chat_id = BoundChatId(is_admin, args)]
    /\ IF ~is_admin
       THEN /\ outbox' = Reply(is_admin, "not_authorized")
            /\ UNCHANGED <<driver_chat_ids, store, admin_chat_id>>
       ELSE /\ admin_chat_id' = AdminChat
            /\ IF Len(args) # 1
               THEN /\ outbox' = Reply(is_admin, "add_driver_usage")
                    /\ UNCHANGED <<driver_chat_ids, store>>
               ELSE IF ~IsInt(args[1])
               THEN /\ outbox' = Reply(is_admin, "invalid_chat_id")
                    /\ UNCHANGED <<driver_chat_ids, store>>
               ELSE IF ~InList(IntOf(args[1]), driver_chat_ids)
               THEN /\ driver_chat_ids' = Append(driver_chat_ids, IntOf(args[1]))
                    /\ store' = save_driver_ids(<<IntOf(args[1])>>, outcome)
                    /\ outbox' = Reply(is_admin, "driver_added")
               ELSE /\ outbox' = Reply(is_admin, "driver_exists")
                    /\ UNCHANGED <<driver_chat_ids, store>>
    /\ UNCHANGED <<stage, user_data>>

\* add_driver calling save_driver_ids before the append
add_driver_saves_before_append(is_admin, args, outcome) ==
    /\ Idle
    /\ pc' = "returned"
    /\ frame' = [NoFrame EXCEPT !.handler = "add_driver", !.chat_id = BoundChatId(is_admin, args)]
    /\ IF ~is_admin
       THEN /\ outbox' = Reply(is_admin, "not_authorized")
            /\ UNCHANGED <<driver_chat_ids, store, admin_chat_id>>
       ELSE /\ admin_chat_id' = AdminChat
            /\ IF Len(args) # 1
               THEN /\ outbox' = Reply(is_admin, "add_driver_usage")
                    /\ UNCHANGED <<driver_chat_ids, store>>
               ELSE IF ~IsInt(args[1])
               THEN /\ outbox' = Reply(is_admin, "invalid_chat_id")
                    /\ UNCHANGED <<driver_chat_ids, store>>
               ELSE IF ~InList(IntOf(args[1]), driver_chat_ids)
               THEN /\ driver_chat_ids' = Append(driver_chat_ids, IntOf(args[1]))
                    /\ store' = save_driver_ids(driver_chat_ids, outcome)
                    /\ outbox' = Reply(is_admin, "driver_added")
               ELSE /\ outbox' = Reply(is_admin, "driver_exists")
                    /\ UNCHANGED <<driver_chat_ids, store>>
    /\ UNCHANGED <<stage, user_data>>

\* add_driver taken up while confirm_order is between two sends of its loop, as
\* with concurrent updates; its reply and its return are left out there
add_driver_during_fanout(is_admin, args, outcome) ==
    /\ pc \in {"idle", "fanout"}
    /\ pc' = IF Idle THEN "returned" ELSE pc
    /\ frame' = IF Idle
                THEN [NoFrame EXCEPT !.handler = "add_driver",
                                     !.chat_id = BoundChatId(is_admin, args)]
                ELSE frame
    /\ IF ~is_admin
       THEN /\ outbox' = (IF Idle THEN Reply(is_admin, "not_authorized") ELSE outbox)
            /\ UNCHANGED <<driver_chat_ids, store, admin_chat_id>>
       ELSE /\ admin_chat_id' = AdminChat
            /\ IF Len(args) # 1
               THEN /\ outbox' = (IF Idle THEN Reply(is_admin, "add_driver_usage") ELSE outbox)
                    /\ UNCHANGED <<driver_chat_ids, store>>
               ELSE IF ~IsInt(args[1])
               THEN /\ outbox' = (IF Idle THEN Reply(is_admin, "invalid_chat_id") ELSE outbox)
                    /\ UNCHANGED <<driver_chat_ids, store>>
               ELSE IF ~InList(IntOf(args[1]), driver_chat_ids)
               THEN /\ driver_chat_ids' = Append(driver_chat_ids, IntOf(args[1]))
                    /\ store' = save_driver_ids(driver_chat_ids', outcome)
                    /\ outbox' = (IF Idle THEN Reply(is_admin, "driver_added") ELSE outbox)
               ELSE /\ outbox' = (IF Idle THEN Reply(is_admin, "driver_exists") ELSE outbox)
                    /\ UNCHANGED <<driver_chat_ids, store>>
    /\ UNCHANGED <<stage, user_data>>

\* /add_driver; is_admin: update.effective_user.username = ADMIN_USERNAME
add_driver(is_admin, args, outcome) ==
    /\ Idle
    /\ pc' = "returned"
    /\ frame' = [NoFrame EXCEPT !.handler = "add_driver", !.chat_id = BoundChatId(is_admin, args)]
    /\ IF ~is_admin
       THEN /\ outbox' = Reply(is_admin, "not_authorized")
            /\ UNCHANGED <<driver_chat_ids, store, admin_chat_id>>
       ELSE /\ admin_chat_id' = AdminChat
            /\ IF Len(args) # 1
               THEN /\ outbox' = Reply(is_admin, "add_driver_usage")
                    /\ UNCHANGED <<driver_chat_ids, store>>
               ELSE IF ~IsInt(args[1])
               THEN /\ outbox' = Reply(is_admin, "invalid_chat_id")
                    /\ UNCHANGED <<driver_chat_ids, store>>
               ELSE IF ~InList(IntOf(args[1]), driver_chat_ids)
               THEN /\ driver_chat_ids' = Append(driver_chat_ids, IntOf(args[1]))
                    /\ store' = save_driver_ids(driver_chat_ids', outcome)
                    /\ outbox' = Reply(is_admin, "driver_added")
               ELSE /\ outbox' = Reply(is_admin, "driver_exists")
                    /\ UNCHANGED <<driver_chat_ids, store>>
    /\ UNCHANGED <<stage, user_data>>

\* remove_driver calling save_driver_ids in the else branch too
remove_driver_saves_always(is_admin, args, outcome) ==
    /\ Idle
    /\ pc' = "returned"
    /\ frame' = [NoFrame EXCEPT !.handler = "remove_driver",
                                 !.chat_id = BoundChatId(is_admin, args)]
    /\ IF ~is_admin
       THEN /\ outbox' = Reply(is_admin, "not_authorized")
            /\ UNCHANGED <<driver_chat_ids, store>>
       ELSE IF Len(args) # 1
       THEN /\ outbox' = Reply(is_admin, "remove_driver_usage")
            /\ UNCHANGED <<driver_chat_ids, store>>
       ELSE IF ~IsInt(args[1])
       THEN /\ outbox' = Reply(is_admin, "invalid_chat_id")
            /\ UNCHANGED <<driver_chat_ids, store>>
       ELSE IF InList(IntOf(args[1]), driver_chat_ids)
       THEN /\ driver_chat_ids' = Remove(driver_chat_ids, IntOf(args[1]))
            /\ store' = save_driver_ids(driver_chat_ids', outcome)
            /\ outbox' = Reply(is_admin, "driver_removed")
       ELSE /\ outbox' = Reply(is_admin, "driver_not_found")
            /\ store' = save_driver_ids(driver_chat_ids, outcome)
            /\ UNCHANGED driver_chat_ids
    /\ UNCHANGED <<stage, user_data, admin_chat_id>>

\* /remove_driver
remove_driver(is_admin, args, outcome) ==
    /\ Idle
    /\ pc' = "returned"
    /\ frame' = [NoFrame EXCEPT !.handler = "remove_driver",
                                 !.chat_id = BoundChatId(is_admin, args)]
    /\ IF ~is_admin
       THEN /\ outbox' = Reply(is_admin, "not_authorized")
            /\ UNCHANGED <<driver_chat_ids, store>>
       ELSE IF Len(args) # 1
       THEN /\ outbox' = Reply(is_admin, "remove_driver_usage")
            /\ UNCHANGED <<driver_chat_ids, store>>
       ELSE IF ~IsInt(args[1])
       THEN /\ outbox' = Reply(is_admin, "invalid_chat_id")
            /\ UNCHANGED <<driver_chat_ids, store>>
       ELSE IF InList(IntOf(args[1]), driver_chat_ids)
       THEN /\ driver_chat_ids' = Remove(driver_chat_ids, IntOf(args[1]))
            /\ store' = save_driver_ids(driver_chat_ids', outcome)
            /\ outbox' = Reply(is_admin, "driver_removed")
       ELSE /\ outbox' = Reply(is_admin, "driver_not_found")
            /\ UNCHANGED <<driver_chat_ids, store>>
    /\ UNCHANGED <<stage, user_data, admin_chat_id>>

\* list_drivers without the test of line 492
list_drivers_open(is_admin) ==
    /\ Idle
    /\ pc' = "returned"
    /\ frame' = [NoFrame EXCEPT !.handler = "list_drivers"]
    /\ outbox' = IF driver_chat_ids = <<>> THEN Reply(is_admin, "no_drivers_registered")
                 ELSE Reply(is_admin, "drivers_list")
    /\ UNCHANGED <<stage, user_data, Registry>>

\* /list_drivers
list_drivers(is_admin) ==
    /\ Idle
    /\ pc' = "returned"
    /\ frame' = [NoFrame EXCEPT !.handler = "list_drivers"]
    /\ outbox' = IF ~is_admin THEN Reply(is_admin, "not_authorized")
                 ELSE IF driver_chat_ids = <<>> THEN Reply(is_admin, "no_drivers_registered")
                 ELSE Reply(is_admin, "drivers_list")
    /\ UNCHANGED <<stage, user_data, Registry>>

-----------------------------------------------------------------------------
(* The program *)

Next ==
    \/ start
    \/ \E text \in EntryTexts : language_select(text)
    \/ \E text \in EntryTexts : order_taxi(text)
    \/ \E text \in EntryTexts : unmatched_text(text)
    \/ \E text \in NameTexts : get_name(text)
    \/ \E contact \in Contacts : get_phone(contact, <<>>)
    \/ \E text \in PhoneTexts : get_phone(<<>>, text)
    \/ \E location \in Locations : get_pickup(location, <<>>)
    \/ \E text \in PickupTexts : get_pickup(<<>>, text)
    \/ \E text \in DropoffTexts : get_dropoff(text)
    \/ add_comment
    \/ \E text \in CommentTexts : receive_comment(text)
    \/ cancel
    \/ \E kind \in UpdateKinds : unmatched(kind)
    \/ \E username \in Usernames : confirm_order(username)
    \/ \E ok \in BOOLEAN : no_drivers_notify_admin(ok)
    \/ \E ok \in BOOLEAN : no_drivers_ack(ok)
    \/ \E ok \in BOOLEAN : no_drivers_prompt(ok)
    \/ \E ok \in BOOLEAN : deliver(ok)
    \/ \E ok \in BOOLEAN : notify_admin(ok)
    \/ \E ok \in BOOLEAN : ack(ok)
    \/ \E ok \in BOOLEAN : prompt(ok)
    \/ handler_exit
    \/ \E is_admin \in BOOLEAN, args \in ArgLists, outcome \in HealthyOutcomes :
           add_driver(is_admin, args, outcome)
    \/ \E is_admin \in BOOLEAN, args \in ArgLists, outcome \in HealthyOutcomes :
           remove_driver(is_admin, args, outcome)
    \/ \E is_admin \in BOOLEAN : list_drivers(is_admin)

Spec == Init /\ [][Next]_vars

-----------------------------------------------------------------------------
(* The registry on a store whose writes can fail, over process restarts.  The *)
(* requester walks the spec's scenario (order button, "Alex", a contact,      *)
(* "Main St", "2nd Ave") and the sends other than the deliveries succeed.     *)

\* the process is stopped and started again.  No persistence is configured
\* (line 509): the conversations, user_data and bot_data are gone, and the module
\* is imported anew with driver_chat_ids not bound yet
restart ==
    /\ Idle
    /\ stage' = "LANG_SELECT"
    /\ user_data' = EmptyDict
    /\ admin_chat_id' = NoChat
    /\ driver_chat_ids' = <<>>
    /\ pc' = "startup"
    /\ UNCHANGED <<store, frame, outbox>>

\* line 68: driver_chat_ids = load_driver_ids()
module_load ==
    /\ pc \in {"startup", "saved"}
    /\ driver_chat_ids' = load_driver_ids(store)
    /\ pc' = "idle"
    /\ UNCHANGED <<stage, user_data, store, admin_chat_id, frame, outbox>>

NextStore ==
    \/ order_taxi(ORDER_BUTTON_EN)
    \/ get_name(Alex)
    \/ \E contact \in Contacts : get_phone(contact, <<>>)
    \/ get_pickup(<<>>, MainSt)
    \/ get_dropoff(SecondAve)
    \/ confirm_order(NoUsername)
    \/ no_drivers_notify_admin(TRUE)
    \/ no_drivers_ack(TRUE)
    \/ no_drivers_prompt(TRUE)
    \/ \E ok \in BOOLEAN : deliver(ok)
    \/ notify_admin(TRUE)
    \/ ack(TRUE)
    \/ prompt(TRUE)
    \/ handler_exit
    \/ \E is_admin \in BOOLEAN, args \in ArgLists, outcome \in SaveOutcomes :
           add_driver(is_admin, args, outcome)
    \/ \E is_admin \in BOOLEAN, args \in ArgLists, outcome \in SaveOutcomes :
           remove_driver(is_admin, args, outcome)
    \/ \E is_admin \in BOOLEAN : list_drivers(is_admin)
    \/ restart
    \/ module_load

SpecStore == Init /\ [][NextStore]_vars

-----------------------------------------------------------------------------
(* load_driver_ids and save_driver_ids as functions: load applied to files of *)
(* any content, and to what save wrote for any list of ids                    *)

\* the longest array among the files, and the longest list that is saved
MaxItems == 2

\* the elements of the arrays: ints, a float, strings, a bool, null
ItemLiterals == {<<"1">>, <<"1", "2">>, <<"-", "3">>, <<"1", ".", "5">>,
                 <<"\"", "2", "\"">>, <<"\"", "x", "\"">>,
                 <<"t", "r", "u", "e">>, <<"n", "u", "l", "l">>}

\* the sequences of at most n elements of S
SeqsUpTo(S, n) == UNION {[1..k -> S] : k \in 0..n}

ArrayTexts == {<<"[">> \o Join(q, <<",", " ">>) \o <<"]">> : q \in SeqsUpTo(ItemLiterals, MaxItems)}

\* texts that are no array: an empty file, a cut-off array, a word, an object,
\* a number, null, a string
OtherTexts == {<<>>, <<"[">>, <<"[", "1", ",">>, <<"x">>, <<"{", "}">>, <<"5">>,
               <<"n", "u", "l", "l">>, <<"\"", "5", "\"">>}

AnyStores == {MissingStore} \cup {File(text) : text \in ArrayTexts \cup OtherTexts}

\* the ids that are saved: negative, zero, of one digit and of two
SampleIds == {-7, 0, 5, 12}

InitLoad ==
    /\ stage = "LANG_SELECT"
    /\ user_data = EmptyDict
    /\ store \in AnyStores
    /\ driver_chat_ids = <<>>
    /\ admin_chat_id = NoChat
    /\ pc = "startup"
    /\ frame = NoFrame
    /\ outbox = <<>>

\* save_driver_ids(ids) on a healthy store, the process then stopped: the list
\* that was saved stays in driver_chat_ids until module_load binds it anew
save_ids(ids) ==
    /\ Idle
    /\ \E outcome \in HealthyOutcomes : store' = save_driver_ids(ids, outcome)
    /\ driver_chat_ids' = ids
    /\ pc' = "saved"
    /\ UNCHANGED <<stage, user_data, admin_chat_id, frame, outbox>>

NextLoad ==
    \/ module_load
    \/ \E ids \in SeqsOver(SampleIds, MaxItems) : save_ids(ids)

SpecLoad == InitLoad /\ [][NextLoad]_vars

-----------------------------------------------------------------------------
(* Reading the state *)

\* the positions of outbox holding a send of one of these kinds
Positions(kinds) == {i \in 1..Len(outbox) : outbox[i].kind \in kinds}

\* the sends of outbox of one of these kinds, in order
SendsOf(kinds) == SelectSeq(outbox, LAMBDA m : m.kind \in kinds)

\* the chats a sequence of sends went to
Recipients(sends) == [i \in 1..Len(sends) |-> sends[i].to]

\* the chats of the order sends that raised, in order
FailedOrderSends == Recipients(SelectSeq(outbox, LAMBDA m : m.kind = "order" /\ ~m.ok))

\* the sends to the requester, in order
RequesterSends == SelectSeq(outbox, LAMBDA m : m.to = RequesterChat)

AckKinds == {"order_accepted", "no_drivers_passenger"}

OperatorKinds == {"order_delivery_failed", "no_drivers_admin"}

Dispatching == frame.handler = "confirm_order"

\* the dispatch took the branch of line 354
NoDriversPath ==
    /\ Dispatching
    /\ \/ pc \in {"no_drivers_admin", "no_drivers_ack", "no_drivers_prompt"}
       \/ Positions({"no_drivers_passenger"}) # {}

\* the loop over the drivers is over
FanoutOver ==
    /\ Dispatching
    /\ ~NoDriversPath
    /\ pc \in {"notify_admin", "ack", "prompt", "returned", "raised"}

\* the handler has run to its return or to the exception that ends it
DispatchEnded == Dispatching /\ pc \in {"returned", "raised"}

\* the draft fields of the spec's RequestDraft
RequiredFields == {"name", "phone", "pickup", "dropoff"}

\* the key each dialogue state writes
FieldOf(st) ==
    CASE st = "NAME" -> "name"
      [] st = "PHONE" -> "phone"
      [] st = "PICKUP" -> "pickup"
      [] st = "DROPOFF" -> "dropoff"

\* user_data holds the language only
SessionCleared(d) == DOMAIN d = {"lang"}

-----------------------------------------------------------------------------
(* C1 *)

\* C1: the stage changes only to the next stage of LANG_SELECT, NAME, PHONE,
\* PICKUP, DROPOFF, CONFIRM or back to LANG_SELECT (a reset); in NAME..DROPOFF a
\* step that writes the session and is no reset advances exactly one stage and
\* leaves that stage's field non-empty; NAME is entered with an empty draft and
\* CONFIRM with comment = "".
C1_StageOrder ==
    [][ /\ stage' # stage =>
              \/ stage' = "LANG_SELECT"
              \/ StageIndex(stage') = StageIndex(stage) + 1
        /\ (stage \in {"NAME", "PHONE", "PICKUP", "DROPOFF"} /\ user_data' # user_data
              /\ stage' # "LANG_SELECT") =>
              /\ StageIndex(stage') = StageIndex(stage) + 1
              /\ FieldOf(stage) \in DOMAIN user_data'
              /\ user_data'[FieldOf(stage)] # EmptyText
        /\ (stage = "LANG_SELECT" /\ stage' = "NAME") => SessionCleared(user_data')
        /\ (stage # "CONFIRM" /\ stage' = "CONFIRM") =>
              /\ RequiredFields \subseteq DOMAIN user_data'
              /\ user_data'["comment"] = EmptyText
      ]_vars

\* the spec's scenario has run: order button, "Alex", contact +1555, "Main St",
\* "2nd Ave"
C1_Witness ==
    /\ stage = "CONFIRM"
    /\ pc = "idle"
    /\ user_data = [lang |-> "en",
                    name |-> Alex,
                    phone |-> <<"+", "1", "5", "5", "5">>,
                    pickup |-> MainSt,
                    pickup_coords |-> <<>>,
                    waze_link |-> WazePrefixQ \o <<"M", "a", "i", "n", "%", "2", "0", "S", "t">>
                                    \o WazeSuffix,
                    dropoff |-> SecondAve,
                    comment |-> EmptyText]

-----------------------------------------------------------------------------
(* C2 *)

\* C2: while confirm_order runs, the name, phone, pickup and dropoff of the draft
\* it read are all non-empty.
C2_DraftComplete ==
    Dispatching =>
        /\ frame.order_message.name # EmptyText
        /\ frame.order_message.phone # EmptyText
        /\ frame.order_message.pickup # EmptyText
        /\ frame.order_message.dropoff # EmptyText

-----------------------------------------------------------------------------
(* C3 *)

OrderButtons == {ORDER_BUTTON_EN, ORDER_BUTTON_UK}

\* the step handles an update that is no accepted event of the current stage in
\* the spec's transition table: an update no handler takes, a text in CONFIRM
\* while waiting_for_comment is not set, or the text of the order button (the
\* begin-order trigger) while a dialogue is running
NotAcceptedUpdate ==
    \/ \E kind \in UpdateKinds \ {"/cancel"} : unmatched(kind)
    \/ \E text \in EntryTexts : unmatched_text(text)
    \/ /\ ~Get(user_data, "waiting_for_comment", FALSE)
       /\ \E text \in CommentTexts \cup OrderButtons : receive_comment(text)
    \/ \E text \in OrderButtons :
           \/ get_name(text)
           \/ get_phone(<<>>, text)
           \/ get_pickup(<<>>, text)
           \/ get_dropoff(text)
           \/ receive_comment(text)

\* C3: an update that is no accepted event of the current stage leaves the stage
\* and the session's draft unchanged.
C3_InvalidInputIgnored ==
    [][NotAcceptedUpdate => (stage' = stage /\ user_data' = user_data)]_vars

-----------------------------------------------------------------------------
(* C4 *)

\* C4: during the loop the order sends made so far went to the first idx - 1
\* drivers of the list, and once the loop is over they went to every driver of
\* the list, in order, whatever each send's outcome; no chat got two.
C4_EveryDriverOnce ==
    (Dispatching /\ ~NoDriversPath) =>
        LET to == Recipients(SendsOf({"order"}))
        IN  /\ to = SubSeq(driver_chat_ids, 1, frame.idx - 1)
            /\ FanoutOver => to = driver_chat_ids
            /\ \A i, j \in 1..Len(to) : to[i] = to[j] => i = j

\* the send to the first of two drivers raised and the second was still tried
C4_Witness ==
    /\ FanoutOver
    /\ Len(driver_chat_ids) = 2
    /\ ~outbox[1].ok
    /\ outbox[2].kind = "order"
    /\ outbox[2].to = driver_chat_ids[2]

-----------------------------------------------------------------------------
(* C5 *)

\* C5: failed_deliveries holds exactly the drivers whose order send raised, each
\* once and in the order of the list, at every point of the dispatch.
C5_FailedListExact ==
    (Dispatching /\ ~NoDriversPath) =>
        /\ frame.failed_deliveries = FailedOrderSends
        /\ \A i, j \in 1..Len(frame.failed_deliveries) :
               frame.failed_deliveries[i] = frame.failed_deliveries[j] => i = j
        /\ \A i \in 1..Len(outbox) :
               (outbox[i].kind = "order" /\ outbox[i].ok) =>
                   ~InList(outbox[i].to, frame.failed_deliveries)

\* A fails and B succeeds: the failed list is exactly <<A>>
C5_Witness ==
    /\ FanoutOver
    /\ Len(driver_chat_ids) = 2
    /\ ~outbox[1].ok
    /\ outbox[2].ok
    /\ frame.failed_deliveries = <<driver_chat_ids[1]>>

-----------------------------------------------------------------------------
(* C6 *)

\* C6: when a dispatch to a non-empty list has ended, what went to the requester
\* and the session left behind are fixed by the outcomes of the requester's own
\* two sends alone: order_accepted then start_again and a cleared session; or
\* order_accepted delivered, start_again raising, and a cleared session; or
\* order_accepted raising and the session as it was.  No case reads the
\* deliveries.
C6_RequesterViewIndependent ==
    (DispatchEnded /\ ~NoDriversPath) =>
        \/ /\ RequesterSends = <<Send(RequesterChat, "order_accepted", TRUE),
                                 Send(RequesterChat, "start_again", TRUE)>>
           /\ pc = "returned"
           /\ SessionCleared(user_data)
        \/ /\ RequesterSends = <<Send(RequesterChat, "order_accepted", TRUE),
                                 Send(RequesterChat, "start_again", FALSE)>>
           /\ pc = "raised"
           /\ SessionCleared(user_data)
        \/ /\ RequesterSends = <<Send(RequesterChat, "order_accepted", FALSE)>>
           /\ pc = "raised"
           /\ order_message(user_data, frame.customer_username) = frame.order_message

\* every delivery of a dispatch to two drivers failed and the requester got the
\* normal acknowledgment
C6_Witness ==
    /\ DispatchEnded
    /\ pc = "returned"
    /\ Len(driver_chat_ids) = 2
    /\ Len(frame.failed_deliveries) = 2
    /\ RequesterSends = <<Send(RequesterChat, "order_accepted", TRUE),
                          Send(RequesterChat, "start_again", TRUE)>>

-----------------------------------------------------------------------------
(* C7 *)

\* C7: a dispatch that finds the list empty makes no order send, has no
\* recipient and no failed delivery, acknowledges with no_drivers_passenger only,
\* and from line 366 on the session holds no draft; an order send is only ever
\* made by confirm_order, so a driver added later receives nothing.
C7_EmptyRegistryTerminal ==
    /\ NoDriversPath =>
          /\ Positions({"order"}) = {}
          /\ Len(driver_chat_ids) = 0
          /\ frame.failed_deliveries = <<>>
          /\ Positions({"order_accepted"}) = {}
          /\ pc \notin {"no_drivers_admin", "no_drivers_ack"} =>
                 Positions({"no_drivers_passenger"}) # {}
          /\ pc # "no_drivers_admin" => SessionCleared(user_data)
    /\ ~Dispatching => Positions({"order"}) = {}

\* the no-drivers dispatch has returned
C7_Witness ==
    /\ NoDriversPath
    /\ pc = "returned"
    /\ RequesterSends = <<Send(RequesterChat, "no_drivers_passenger", TRUE),
                          Send(RequesterChat, "start_again", TRUE)>>

-----------------------------------------------------------------------------
(* C8 *)

\* C8: once a dispatch is past its notification step, the operator has been sent
\* a notification exactly when a delivery failed or there was no recipient.
C8_OperatorNotified ==
    (Dispatching /\ pc \in {"ack", "prompt", "no_drivers_ack", "no_drivers_prompt",
                            "returned", "raised"}) =>
        ((frame.failed_deliveries # <<>> \/ NoDriversPath) <=> Positions(OperatorKinds) # {})

-----------------------------------------------------------------------------
(* C9 *)

\* C9: a dispatch sends the requester at most one acknowledgment and, once it has
\* ended, exactly one; when the acknowledgment is sent every driver of the list
\* has had its order send and failed_deliveries is complete.
C9_OneAckAfterFanout ==
    Dispatching =>
        /\ Cardinality(Positions(AckKinds)) <= 1
        /\ DispatchEnded => Cardinality(Positions(AckKinds)) = 1
        /\ \A a \in Positions(AckKinds) :
               /\ outbox[a].to = RequesterChat
               /\ \A i \in Positions({"order"}) : i < a
               /\ Cardinality(Positions({"order"})) = Len(driver_chat_ids)
               /\ frame.failed_deliveries = FailedOrderSends

\* a dispatch to two drivers, one of them failing, has returned
C9_Witness ==
    /\ DispatchEnded
    /\ pc = "returned"
    /\ Len(driver_chat_ids) = 2
    /\ Len(frame.failed_deliveries) = 1
    /\ Cardinality(Positions({"order_accepted"})) = 1

-----------------------------------------------------------------------------
(* C10 *)

\* C10: whatever sends failed, when confirm_order is left the conversation is
\* over and the session is cleared.
C10_FailuresSwallowed ==
    [][(DispatchEnded /\ pc' = "idle") =>
           (stage' = "LANG_SELECT" /\ SessionCleared(user_data'))]_vars

-----------------------------------------------------------------------------
(* C11 *)

\* the keys the dialogue writes: the draft's fields and the awaiting-comment flag
DraftKeys == RequiredFields \cup {"pickup_coords", "waze_link", "comment", "waiting_for_comment"}

\* C11: when confirm_order is left, on the no-drivers path and on the normal one,
\* the conversation is back at its start with no draft field and no
\* waiting_for_comment in the session; an order button pressed there is taken and
\* leads to NAME.
C11_ConfirmResetsSession ==
    [][ /\ (Dispatching /\ pc' = "idle") =>
               /\ stage' = "LANG_SELECT"
               /\ DOMAIN user_data' \cap DraftKeys = {}
        /\ (stage = "LANG_SELECT" /\ \E text \in OrderButtons : order_taxi(text)) =>
               stage' = "NAME"
      ]_vars

-----------------------------------------------------------------------------
(* C12 *)

\* the step runs the cancel handler
CancelRuns == pc = "idle" /\ pc' = "returned" /\ frame'.handler = "cancel"

-----------------------------------------------------------------------------
(* C13 *)

\* the language a button selects
LangOf(text) == IF text = LANG_UK THEN "uk" ELSE "en"

\* C13 as stated: either language button sets the language and leaves the
\* conversation where it was, and only an order button opens the dialogue.
C13_LocaleKeepsStage ==
    [][ /\ \A text \in {LANG_UK, LANG_EN} :
               language_select(text) =>
                   (user_data'["lang"] = LangOf(text) /\ stage' = "LANG_SELECT")
        /\ (stage = "LANG_SELECT" /\ stage' = "NAME") =>
               \E text \in OrderButtons : order_taxi(text)
      ]_vars

\* C13: either language button sets the language; the English one leaves the
\* conversation where it was and the Ukrainian one opens the dialogue in NAME at
\* once; the dialogue is opened by an order button or by the Ukrainian button
\* and by nothing else.
C13_LocaleSelect ==
    [][ /\ \A text \in {LANG_UK, LANG_EN} :
               language_select(text) =>
                   /\ user_data'["lang"] = LangOf(text)
                   /\ stage' = IF text = LANG_UK THEN "NAME" ELSE "LANG_SELECT"
        /\ (stage = "LANG_SELECT" /\ stage' = "NAME") =>
               \/ \E text \in OrderButtons : order_taxi(text)
               \/ language_select(LANG_UK)
      ]_vars

\* the Ukrainian button was pressed by a requester the bot had not seen
C13_Witness ==
    /\ stage = "NAME"
    /\ pc = "idle"
    /\ user_data = [lang |-> "uk"]

-----------------------------------------------------------------------------
(* Reading the registry *)

ToSet(list) == {list[i] : i \in 1..Len(list)}

NoRepeats(list) == \A i, j \in 1..Len(list) : list[i] = list[j] => i = j

\* the ids the file holds, as the next start of the process reads them
StoredIds == load_driver_ids(store)

\* the handler has returned after this one reply
Returned(handler, kind) ==
    /\ pc = "returned"
    /\ frame.handler = handler
    /\ Len(outbox) = 1
    /\ outbox[1].kind = kind

\* the step runs the command for the operator with an argument int() reads as id
AdminRuns(handler, id) ==
    /\ pc = "idle"
    /\ pc' = "returned"
    /\ frame'.handler = handler
    /\ frame'.chat_id = id

-----------------------------------------------------------------------------
(* C14 *)

\* C14: no id occurs twice in driver_chat_ids nor in the file, and when
\* /remove_driver has replied driver_removed the id is not in the list.
C14_NoDuplicates ==
    /\ NoRepeats(driver_chat_ids)
    /\ NoRepeats(StoredIds)
    /\ Returned("remove_driver", "driver_removed") => ~InList(frame.chat_id, driver_chat_ids)

\* driver 1 was removed from a list of two
C14_Witness ==
    /\ Returned("remove_driver", "driver_removed")
    /\ frame.chat_id = 1
    /\ driver_chat_ids = <<2>>
    /\ store = ListStore(<<2>>)

-----------------------------------------------------------------------------
(* C15 *)

\* C15: /add_driver of an id that is not in the list replies driver_added and
\* leaves the list one id larger and holding the id; /add_driver of an id that
\* is in the list (as it is after a first add) replies driver_exists and
\* changes neither the list nor the file.
C15_AddIdempotent ==
    [][\A id \in DriverIds :
           AdminRuns("add_driver", id) =>
               IF ~InList(id, driver_chat_ids)
               THEN /\ outbox'[1].kind = "driver_added"
                    /\ Cardinality(ToSet(driver_chat_ids')) =
                           Cardinality(ToSet(driver_chat_ids)) + 1
                    /\ InList(id, driver_chat_ids')
               ELSE /\ outbox'[1].kind = "driver_exists"
                    /\ UNCHANGED <<driver_chat_ids, store>>
      ]_vars

\* the second /add_driver 1 of a process that started without a file and whose
\* write at the first one did not go through
C15_Witness ==
    /\ Returned("add_driver", "driver_exists")
    /\ frame.chat_id = 1
    /\ driver_chat_ids = <<1>>
    /\ store = MissingStore

-----------------------------------------------------------------------------
(* C16 *)

\* C16: /remove_driver of an id that is not in the list replies
\* driver_not_found and changes neither the list nor the file, whatever a write
\* would have done to the file.
C16_RemoveAbsent ==
    [][\A id \in DriverIds :
           (AdminRuns("remove_driver", id) /\ ~InList(id, driver_chat_ids)) =>
               /\ outbox'[1].kind = "driver_not_found"
               /\ UNCHANGED <<driver_chat_ids, store>>
      ]_vars

\* /remove_driver 2 on a list that holds 1 only
C16_Witness ==
    /\ Returned("remove_driver", "driver_not_found")
    /\ frame.chat_id = 2
    /\ driver_chat_ids = <<1>>
    /\ store = ListStore(<<1>>)

-----------------------------------------------------------------------------
(* C17 *)

\* C17: load_driver_ids applied to what save_driver_ids wrote for a list of ids
\* returns the same ids.
C17_RoundTrip ==
    [][(pc = "saved" /\ pc' = "idle") =>
           ToSet(driver_chat_ids') = ToSet(driver_chat_ids)]_vars

\* [-7, 12] was saved and loaded
C17_Witness ==
    /\ pc = "idle"
    /\ store = File(<<"[", "-", "7", ",", " ", "1", "2", "]">>)
    /\ driver_chat_ids = <<-7, 12>>

-----------------------------------------------------------------------------
(* C18 *)

\* the file's text cannot be parsed, or is no array, or is an array with an
\* element that is no JSON integer
Malformed(st) ==
    /\ st.exists
    /\ LET data == json_load(st.text)
       IN  \/ ~data.ok
           \/ data.value.t # "list"
           \/ \E i \in 1..Len(data.value.items) : data.value.items[i].t # "int"

\* C18: load_driver_ids returns the empty list for a missing file and for a
\* malformed one.
C18_LoadFailsSoft ==
    (pc = "idle" /\ (~store.exists \/ Malformed(store))) => driver_chat_ids = <<>>

-----------------------------------------------------------------------------
(* C19 *)

\* C19: when the write of /add_driver or /remove_driver does not go through, the
\* handler still returns with driver_added or driver_removed and the list holds
\* the change; a dispatch sends to the drivers of the list, whatever the file
\* holds.
C19_PersistFailureKeepsMemory ==
    /\ [][\A id \in DriverIds :
              /\ (AdminRuns("add_driver", id) /\ ~InList(id, driver_chat_ids)
                    /\ store' # ListStore(Append(driver_chat_ids, id))) =>
                     /\ outbox' = Reply(TRUE, "driver_added")
                     /\ driver_chat_ids' = Append(driver_chat_ids, id)
              /\ (AdminRuns("remove_driver", id) /\ InList(id, driver_chat_ids)
                    /\ store' # ListStore(Remove(driver_chat_ids, id))) =>
                     /\ outbox' = Reply(TRUE, "driver_removed")
                     /\ driver_chat_ids' = Remove(driver_chat_ids, id)
         ]_vars
    /\ [](FanoutOver => Recipients(SendsOf({"order"})) = driver_chat_ids)

\* two drivers were added while no write went through, and a dispatch has sent
\* to both
C19_Witness ==
    /\ FanoutOver
    /\ store = MissingStore
    /\ Len(driver_chat_ids) = 2
    /\ Recipients(SendsOf({"order"})) = driver_chat_ids

-----------------------------------------------------------------------------
(* C20 *)

\* C20: /add_driver, /remove_driver and /list_drivers from a caller who is not
\* the operator reply not_authorized and change neither the list, nor the file,
\* nor the admin chat, whatever the arguments.
C20_UnauthorizedDenied ==
    [][(/\ pc = "idle"
        /\ pc' = "returned"
        /\ frame'.handler \in {"add_driver", "remove_driver", "list_drivers"}
        /\ outbox'[1].to = StrangerChat) =>
           /\ outbox' = <<Send(StrangerChat, "not_authorized", TRUE)>>
           /\ frame'.chat_id = 0
           /\ UNCHANGED <<driver_chat_ids, store, admin_chat_id>>
      ]_vars

\* a stranger's /add_driver was refused and no admin chat is recorded
C20_Witness ==
    /\ Returned("add_driver", "not_authorized")
    /\ outbox[1].to = StrangerChat
    /\ admin_chat_id = NoChat
    /\ driver_chat_ids = <<>>

-----------------------------------------------------------------------------
(* C21 *)

\* the step is the body of /add_driver or /remove_driver
RegistryCommandRuns ==
    /\ pc = "idle"
    /\ pc' = "returned"
    /\ frame'.handler \in {"add_driver", "remove_driver"}

\* C21: the updates are handled one at a time, so two commands interleave as
\* one after the other.  A command on one id leaves every other id as it was, in
\* the list and in the file; an add that replies driver_added leaves its id in
\* both and a remove that replies driver_removed leaves it in neither; and no
\* step between two commands changes the list or the file.  So once two commands
\* on different ids have completed, the list and the file hold the effect of both.
C21_NoLostUpdate ==
    [][ /\ \A id \in DriverIds :
               /\ (RegistryCommandRuns /\ frame'.chat_id # id) =>
                      /\ InList(id, driver_chat_ids') <=> InList(id, driver_chat_ids)
                      /\ InList(id, load_driver_ids(store')) <=> InList(id, StoredIds)
               /\ (AdminRuns("add_driver", id) /\ outbox'[1].kind = "driver_added") =>
                      (InList(id, driver_chat_ids') /\ InList(id, load_driver_ids(store')))
               /\ (AdminRuns("remove_driver", id) /\ outbox'[1].kind = "driver_removed") =>
                      (~InList(id, driver_chat_ids') /\ ~InList(id, load_driver_ids(store')))
        /\ ~RegistryCommandRuns => UNCHANGED <<driver_chat_ids, store>>
        /\ RegistryCommandRuns => frame.handler = "none"
      ]_vars

\* /add_driver 2 and then /add_driver 1 in a process that started without a file
C21_Witness ==
    /\ Returned("add_driver", "driver_added")
    /\ frame.chat_id = 1
    /\ driver_chat_ids = <<2, 1>>
    /\ store = ListStore(<<2, 1>>)

-----------------------------------------------------------------------------
(* C22 *)

\* C22: while confirm_order runs no step changes the list, so the list the loop
\* iterates is the list as it was when the dispatch started; a command is taken
\* up only when no handler runs; and once the loop is over the order sends went
\* to the drivers of that list, one each.
C22_DispatchSnapshot ==
    /\ [][ /\ (frame'.handler = "confirm_order") => driver_chat_ids' = driver_chat_ids
           /\ (frame'.handler \in {"add_driver", "remove_driver", "list_drivers"}
                 /\ frame.handler # frame'.handler) => frame.handler = "none"
         ]_vars
    /\ [](FanoutOver =>
              /\ ToSet(Recipients(SendsOf({"order"}))) = ToSet(driver_chat_ids)
              /\ Len(SendsOf({"order"})) = Len(driver_chat_ids))

\* a dispatch to the list <<2, 1>> has returned
C22_Witness ==
    /\ FanoutOver
    /\ pc = "returned"
    /\ driver_chat_ids = <<2, 1>>
    /\ ToSet(Recipients(SendsOf({"order"}))) = {1, 2}

-----------------------------------------------------------------------------
(* C23 *)

\* context.user_data.get("waiting_for_comment")
Waiting(d) == Get(d, "waiting_for_comment", FALSE)

\* C23: waiting_for_comment is set only in CONFIRM; it becomes set by the
\* add_comment button alone and stays set until the next text message; a text
\* message in CONFIRM becomes the comment exactly when the flag is set, and
\* leaves the flag unset and the conversation in CONFIRM; the flag is not set
\* when CONFIRM is entered nor after a reset.
C23_AwaitingComment ==
    /\ [](Waiting(user_data) => stage = "CONFIRM")
    /\ [][ /\ (~Waiting(user_data) /\ Waiting(user_data')) => add_comment
           /\ (Waiting(user_data) /\ ~Waiting(user_data')) =>
                  \/ \E text \in CommentTexts : receive_comment(text)
                  \/ stage' = "LANG_SELECT"
                  \/ Dispatching
           /\ \A text \in CommentTexts :
                  receive_comment(text) =>
                      /\ stage' = "CONFIRM"
                      /\ ~Waiting(user_data')
                      /\ IF Waiting(user_data)
                         THEN user_data'["comment"] = text
                         ELSE user_data' = user_data
           /\ (stage # "CONFIRM" /\ stage' = "CONFIRM") => ~Waiting(user_data')
           /\ (stage # "LANG_SELECT" /\ stage' = "LANG_SELECT") => ~Waiting(user_data')
         ]_vars

\* the button was pressed and the comment "no smoking" was taken
C23_Witness ==
    /\ stage = "CONFIRM"
    /\ pc = "idle"
    /\ "waiting_for_comment" \in DOMAIN user_data
    /\ ~user_data["waiting_for_comment"]
    /\ user_data["comment"] = NoSmoking

-----------------------------------------------------------------------------
(* get_pickup as a function of the message: a requester in PICKUP sends a     *)
(* location, a text, or (for the precedence of the location) both             *)

\* the longest address that is sent
MaxAddress == 4

\* a letter, a space, a line break (a text message can have several lines) and
\* a percent sign
AddressChars == {"a", " ", "\n", "%"}

\* filters.TEXT: the text of a message is not empty; Telegram delivers it
\* without leading or trailing whitespace
AddressTexts ==
    {t \in SeqsUpTo(AddressChars, MaxAddress) : t # <<>> /\ Strip(t) = t} \cup {MainSt}

InitPickup ==
    /\ stage = "PICKUP"
    /\ user_data \in {[lang |-> lang, name |-> Alex, phone |-> Phone555] : lang \in {"en", "uk"}}
    /\ store = MissingStore
    /\ driver_chat_ids = load_driver_ids(store)
    /\ admin_chat_id = NoChat
    /\ pc = "idle"
    /\ frame = NoFrame
    /\ outbox = <<>>

NextPickup ==
    \/ \E location \in Locations : get_pickup(location, <<>>)
    \/ \E text \in AddressTexts : get_pickup(<<>>, text)
    \/ \E location \in Locations, text \in AddressTexts : get_pickup(location, text)

SpecPickup == InitPickup /\ [][NextPickup]_vars

-----------------------------------------------------------------------------
(* C24 *)

\* the whitespace characters of the addresses
WhitespaceChars == {" ", "\n"}

RECURSIVE PercentEncodeWhitespace(_)
\* s with each whitespace character replaced by its percent-encoding and every
\* other character as it is
PercentEncodeWhitespace(s) ==
    IF s = <<>> THEN <<>>
    ELSE (CASE Head(s) = " " -> <<"%", "2", "0">>
            [] Head(s) = "\n" -> <<"%", "0", "A">>
            [] OTHER -> <<Head(s)>>) \o PercentEncodeWhitespace(Tail(s))

\* C24: once get_pickup has run, the link of a location is made of the latitude
\* and the longitude alone and holds no percent sign, and the link of an address
\* holds the address with every whitespace character percent-encoded and every
\* other character unchanged.
C24_NavigationLink ==
    stage = "DROPOFF" =>
        IF user_data["pickup_coords"] # <<>>
        THEN LET lat == user_data["pickup_coords"][1]
                 lon == user_data["pickup_coords"][2]
             IN  /\ user_data["waze_link"] = WazePrefixLl \o lat \o <<",">> \o lon \o WazeSuffix
                 /\ ~InList("%", user_data["waze_link"])
                 /\ user_data["pickup"] = LocationPrefix \o lat \o <<",", " ">> \o lon
        ELSE /\ user_data["waze_link"] =
                    WazePrefixQ \o PercentEncodeWhitespace(user_data["pickup"]) \o WazeSuffix
             /\ \A i \in 1..Len(user_data["waze_link"]) :
                    user_data["waze_link"][i] \notin WhitespaceChars

-----------------------------------------------------------------------------
(* C25 *)

\* C25: with every write succeeding, the identifiers read back from drivers.json
\* are those of driver_chat_ids, in the same order, from the start of the process
\* on; after an /add_driver or a /remove_driver that changed the list, the file
\* is the dump of the list.
C25_StoreMirrorsRegistry ==
    /\ StoredIds = driver_chat_ids
    /\ (Returned("add_driver", "driver_added") \/ Returned("remove_driver", "driver_removed")) =>
           store = ListStore(driver_chat_ids)

C25_Witness ==
    /\ Returned("remove_driver", "driver_removed")
    /\ frame.chat_id = 2
    /\ driver_chat_ids = <<1>>
    /\ store = ListStore(<<1>>)

====
